---- MODULE Spec2Model ----
(***************************************************************************)
(* Subscription lifecycle of the meal-subscription application:           *)
(* create / edit / cancel (api/subscriptions), pause / resume              *)
(* (api/subscriptions/[id]/pause) over the tables of db/schema.ts.         *)
(*                                                                         *)
(* Tables are sequences; a row's id is its index (generatedAlwaysAs-       *)
(* Identity, rows are never deleted from subscriptions or                  *)
(* paused_subscriptions).  Calendar dates are day numbers.  The clock      *)
(* `now` counts ticks, TicksPerDay of them per day; the server clock is    *)
(* taken to run in UTC, so that local midnight (setHours(0,0,0,0)) and     *)
(* the UTC midnight that new Date("YYYY-MM-DD") yields lie on one grid.    *)
(* price_per_meal values are multiples of 10, so that the factor 4.3 is    *)
(* the exact rational 43/10 on every price the model computes.             *)
(*                                                                         *)
(* The handlers take the verdicts of their guards (rate limiter, session,  *)
(* CSRF token) as arguments.  Spec, SpecPause, SpecPrice, SpecMisprice,    *)
(* SpecStorage and SpecConcurrent run requests that pass the guards;       *)
(* SpecGuard computes the CSRF verdict from the token store of             *)
(* lib/csrf.ts, SpecRate the limiter's verdict from its request log.       *)
(***************************************************************************)
EXTENDS Integers, Sequences, FiniteSets, TLC

VARIABLES
    subs,          \* subscriptions table
    deliveryDays,  \* delivery_days rows, per subscription id, in insertion order
    pauses,        \* paused_subscriptions table
    users,         \* users table: phone_number per user id
    now,           \* server clock, in ticks
    resp,          \* response to the latest request
    csrfTokens,    \* lib/csrf.ts csrfTokens: user id |-> {token, expires}
    requests,      \* generalRateLimiter's requests: identifier |-> timestamps
    issued,        \* the tokens handed out so far: token |-> its user and time
    inflight       \* handlers that run concurrently: position and locals

\* the in-memory stores of lib/csrf.ts, the clients' tokens, the running handlers
env == <<csrfTokens, requests, issued, inflight>>

vars == <<subs, deliveryDays, pauses, users, now, resp, csrfTokens, requests,
          issued, inflight>>

---------------------------------------------------------------------------
(* Bounds of the model *)

MaxSubs == 2
MaxPauses == 3
MaxNow == 2
DateSpan == 1
TicksPerDay == 2

---------------------------------------------------------------------------
(* Values *)

UserIds == {1, 2}
NoSession == 0            \* getServerSession returned no session
NaNId == -1               \* parseInt(id) is NaN
NullDate == -1            \* endDate null / startDate missing
BadDate == -2             \* a string new Date() cannot parse

IdInputs == 0..MaxSubs
SessionInputs == {NoSession} \cup UserIds

\* <<rl, u, csrf>>: the result of applyRateLimit, the session's user and the
\* result of validateCSRF, for the requests of signed-in users that pass the
\* three guards
GuardInputs == {<<TRUE, u, TRUE>> : u \in UserIds}

\* meal_plans rows (db/seed/meal-plans.ts): id |-> price_per_meal
mealPlans == (1 :> 30000) @@ (2 :> 40000)

validMealTypes == {"breakfast", "lunch", "dinner"}
validDeliveryDays == {"sunday", "monday", "tuesday", "wednesday", "thursday",
                      "friday", "saturday"}

MEAL_TYPE_MAP == ("breakfast" :> 0) @@ ("lunch" :> 1) @@ ("dinner" :> 2)

DAY_OF_WEEK_MAP == ("sunday" :> 0) @@ ("monday" :> 1) @@ ("tuesday" :> 2) @@
                   ("wednesday" :> 3) @@ ("thursday" :> 4) @@ ("friday" :> 5) @@
                   ("saturday" :> 6)

\* String.prototype.toLowerCase on the tokens the model submits
ToLower(t) ==
    CASE t = "Lunch" -> "lunch"
      [] t = "Monday" -> "monday"
      [] OTHER -> t

\* sanitizeInput(t, 'text') on the tokens the model submits: trim, then
\* strip the characters < > ' " ; & =
sanitizeInput(t) ==
    CASE t = " friday" -> "friday"
      [] t = "lunch;" -> "lunch"
      [] OTHER -> t

\* validateFormData: the xss / sqlInjection / field validators
validName(n) == n \in {"", "Ann"}
validPhone(p) == p \in {"", "08110000001", "08110000002"}
validAllergies(a) == a \in {"", "nuts"}

Abs(x) == IF x < 0 THEN -x ELSE x

\* body.mealTypes.map(mt => sanitizeInput(mt, 'text'))
sanitizeAll(s) == [i \in 1..Len(s) |-> sanitizeInput(s[i])]

---------------------------------------------------------------------------
(* Responses *)

Response(op, code, error) == [op |-> op, code |-> code, error |-> error]

OK == <<200, "">>

\* The guards every state-changing handler runs first: applyRateLimit,
\* getServerSession, validateCSRF.  rl and csrf are the results of
\* applyRateLimit(request, 'general') and validateCSRF(request).
Preamble(rl, u, csrf) ==
    IF ~rl THEN <<429, "Too many requests. Please try again later.">>
    ELSE IF u = NoSession THEN <<401, "Authentication required">>
    ELSE IF ~csrf THEN <<403, "CSRF validation failed">>
    ELSE OK

\* the select without its eq(user_id, userId) condition
SelectSubscription_AnyOwner(id, u) ==
    IF id \in 1..Len(subs) THEN <<subs[id]>> ELSE <<>>

\* db.select().from(subscriptionsTable)
\*   .where(and(eq(id, subscriptionId), eq(user_id, userId))).limit(1)
SelectSubscription(id, u) ==
    IF id \in 1..Len(subs) /\ subs[id].user_id = u THEN <<subs[id]>> ELSE <<>>

---------------------------------------------------------------------------
(* Dates *)

IsNaNDate(d) == d = BadDate

\* new Date("YYYY-MM-DD").getTime(): midnight UTC of that day, in ticks
DateTime(d) == d * TicksPerDay

\* today = new Date(); today.setHours(0, 0, 0, 0)
StartOfToday(t) == (t \div TicksPerDay) * TicksPerDay

\* new Date().toISOString().split('T')[0]
TodayISO(t) == t \div TicksPerDay

Today == TodayISO(now)

\* the dates a request may carry: missing, unparseable, or a day near today
StartInputs ==
    {NullDate, BadDate}
        \cup {d \in (Today - DateSpan)..(Today + DateSpan) : d >= 0}

EndInputs == {NullDate, BadDate} \cup (Today..(Today + DateSpan + 1))

\* variant: start < today, which lets a pause start on the day of the request
StartNotAfterToday_Strict(startDate, t) == DateTime(startDate) < StartOfToday(t)

\* start <= today
StartNotAfterToday(startDate, t) == DateTime(startDate) <= StartOfToday(t)

\* end && (isNaN(end.getTime()) || end <= start)
EndNotAfterStart(endDate, startDate) ==
    /\ endDate # NullDate
    /\ (IsNaNDate(endDate) \/ DateTime(endDate) <= DateTime(startDate))

---------------------------------------------------------------------------
(* lib/csrf.ts: the rate limiter and the CSRF token store *)

MsPerDay == 86400000

\* Date.now(): milliseconds; the requests of one tick arrive at one instant
DateNow(t) == t * (MsPerDay \div TicksPerDay)

\* createRateLimiter(50, 60 * 1000)
maxRequests == 50
windowMs == 60000

\* x-forwarded-for || x-real-ip || 'unknown'
ClientIPs == {"10.0.0.1", "unknown"}

\* userRequests.filter(time => time > windowStart)
validRequests(ip, t) ==
    SelectSeq(requests[ip], LAMBDA time : time > DateNow(t) - windowMs)

\* the limiter's verdict: validRequests.length >= maxRequests returns false
RateLimitAdmits(ip, t) == Len(validRequests(ip, t)) < maxRequests

\* validRequests.push(now); requests.set(identifier, validRequests)
RateLimitLog(ip, t) ==
    IF RateLimitAdmits(ip, t)
    THEN [requests EXCEPT ![ip] = Append(validRequests(ip, t), DateNow(t))]
    ELSE requests

\* expires: Date.now() + 60 * 60 * 1000
CsrfLifetimeMs == 3600000

NoToken == 0              \* no x-csrf-token header / no entry in csrfTokens

NoEntry == [token |-> NoToken, expires |-> 0]

\* variant: the expiry of the stored token is not looked at
validateCSRF_NoExpiry(u, token, t) ==
    /\ u # NoSession
    /\ token # NoToken
    /\ csrfTokens[u].token = token

\* validateCSRF(request).valid, for the session user u and the header token
validateCSRF(u, token, t) ==
    IF u = NoSession THEN FALSE
    ELSE IF token = NoToken THEN FALSE
    ELSE IF csrfTokens[u] = NoEntry \/ csrfTokens[u].expires < DateNow(t) THEN FALSE
    ELSE IF csrfTokens[u].token # token THEN FALSE
    ELSE TRUE

\* generateCSRFForUser(userId): 32 random bytes, a token no one holds yet
generateCSRFForUser(u, token, t) ==
    [csrfTokens EXCEPT ![u] = [token |-> token,
                               expires |-> DateNow(t) + CsrfLifetimeMs]]

\* GET /api/auth/csrf-token without refresh=true.  The 32 random bytes are a
\* token that was never issued before: the next number after those issued.
GetCsrfToken(rl, u) ==
    LET r == IF ~rl THEN <<429, "Too many requests. Please try again later.">>
             ELSE IF u = NoSession THEN <<401, "Authentication required">>
             ELSE <<200, "">>
        token == Len(issued) + 1
    IN
    /\ resp' = [op |-> "csrf-token", code |-> r[1], error |-> r[2]]
    /\ IF r[1] = 200
       THEN /\ csrfTokens' = generateCSRFForUser(u, token, now)
            /\ issued' = Append(issued, [user |-> u, time |-> now])
       ELSE UNCHANGED <<csrfTokens, issued>>
    /\ UNCHANGED <<subs, deliveryDays, pauses, users, now, requests, inflight>>

---------------------------------------------------------------------------
(* POST /api/subscriptions/[id]/pause *)

\* variant: only a cancelled subscription is refused
NotActive_OnlyCancelled(sub) == sub.status = "cancelled"

\* subscription.status !== 'active'
NotActive(sub) == sub.status # "active"

\* select from paused_subscriptions
\*   where subscription_id = id and end_date is null limit 1
ExistingPause(id) ==
    {i \in 1..Len(pauses) : /\ pauses[i].subscription_id = id
                            /\ pauses[i].end_date = NullDate}

PauseRow(id, startDate, endDate) ==
    [subscription_id |-> id, start_date |-> startDate, end_date |-> endDate]

PauseResult(rl, u, csrf, id, startDate, endDate) ==
    IF Preamble(rl, u, csrf) # OK THEN Preamble(rl, u, csrf)
    ELSE IF id = NaNId THEN <<400, "Invalid subscription ID">>
    ELSE IF startDate = NullDate THEN <<400, "Start date is required">>
    ELSE IF IsNaNDate(startDate) THEN <<400, "Invalid start date format">>
    ELSE IF StartNotAfterToday(startDate, now)
        THEN <<400, "Start date must be after today">>
    ELSE IF EndNotAfterStart(endDate, startDate)
        THEN <<400, "End date must be after start date">>
    ELSE IF SelectSubscription(id, u) = <<>> THEN <<404, "Subscription not found">>
    ELSE IF NotActive(subs[id])
        THEN <<400, "Only active subscriptions can be paused">>
    ELSE IF ExistingPause(id) # {} THEN <<400, "Subscription is already paused">>
    ELSE OK

Pause(rl, u, csrf, id, startDate, endDate) ==
    LET r == PauseResult(rl, u, csrf, id, startDate, endDate) IN
    /\ resp' = Response("pause", r[1], r[2])
    /\ IF r = OK
       THEN /\ Len(pauses) < MaxPauses
            /\ pauses' = Append(pauses, PauseRow(id, startDate, endDate))
            /\ subs' = [subs EXCEPT ![id].status = "paused"]
       ELSE UNCHANGED <<subs, pauses>>
    /\ UNCHANGED <<deliveryDays, users, now>>

---------------------------------------------------------------------------
(* DELETE /api/subscriptions/[id]/pause  (resume) *)

\* variant: only an active subscription is refused
NotPaused_OnlyActive(sub) == sub.status = "active"

\* variant: only a cancelled subscription is refused
NotPaused_OnlyCancelled(sub) == sub.status = "cancelled"

\* subscription.status !== 'paused'
NotPaused(sub) == sub.status # "paused"

RecordsOf(id) == {i \in 1..Len(pauses) : pauses[i].subscription_id = id}

\* select from paused_subscriptions where subscription_id = id
\*   order by id limit 1      -- ascending: the row with the smallest id
SelectPauseRecord(id) ==
    IF RecordsOf(id) = {} THEN 0
    ELSE CHOOSE i \in RecordsOf(id) : \A j \in RecordsOf(id) : i <= j

\* GET /api/subscriptions/my-subscriptions, for each subscription row:
\* pauseInfo is the same ascending select with limit 1
pauseInfo(id) ==
    IF SelectPauseRecord(id) = 0 THEN <<>> ELSE <<pauses[SelectPauseRecord(id)]>>

\* subscription.status === 'paused'
isPaused(id) == subs[id].status = "paused"

\* isPaused && pauseInfo[0]?.end_date ? pauseInfo[0].end_date : null
pausedUntil(id) ==
    IF isPaused(id) /\ pauseInfo(id) # <<>> /\ pauseInfo(id)[1].end_date # NullDate
    THEN pauseInfo(id)[1].end_date
    ELSE NullDate

\* variant: the synthesized row is inserted and never closed
SynthesizePause_LeftOpen(id, today) ==
    Append(pauses, [subscription_id |-> id, start_date |-> today,
                    end_date |-> NullDate])

\* insert {start_date: today, end_date: null} returning, then
\* update set end_date = today where id = the returned id
SynthesizePause(id, today) ==
    Append(pauses, PauseRow(id, today, today))

\* update paused_subscriptions set end_date = today where id = rec
EndPause(rec, today) == [pauses EXCEPT ![rec].end_date = today]

ResumeResult(rl, u, csrf, id) ==
    IF Preamble(rl, u, csrf) # OK THEN Preamble(rl, u, csrf)
    ELSE IF id = NaNId THEN <<400, "Invalid subscription ID">>
    ELSE IF SelectSubscription(id, u) = <<>> THEN <<404, "Subscription not found">>
    ELSE IF NotPaused(subs[id])
        THEN <<400, "Only paused subscriptions can be resumed">>
    ELSE OK

Resume(rl, u, csrf, id) ==
    LET r == ResumeResult(rl, u, csrf, id)
        rec == SelectPauseRecord(id)
    IN
    /\ resp' = Response("resume", r[1], r[2])
    /\ IF r = OK
       THEN /\ IF rec = 0
               THEN /\ Len(pauses) < MaxPauses
                    /\ pauses' = SynthesizePause(id, TodayISO(now))
               ELSE pauses' = EndPause(rec, TodayISO(now))
            /\ subs' = [subs EXCEPT ![id].status = "active"]
       ELSE UNCHANGED <<subs, pauses>>
    /\ UNCHANGED <<deliveryDays, users, now>>

---------------------------------------------------------------------------
(* DELETE /api/subscriptions/[id]  (cancel) *)

\* isNaN(subscriptionId) || subscriptionId <= 0
InvalidId(id) == id = NaNId \/ id <= 0

CancelResult(rl, u, csrf, id) ==
    IF Preamble(rl, u, csrf) # OK THEN Preamble(rl, u, csrf)
    ELSE IF InvalidId(id) THEN <<400, "Invalid subscription ID">>
    ELSE IF SelectSubscription(id, u) = <<>>
        THEN <<404, "Subscription not found or access denied">>
    ELSE OK

Cancel(rl, u, csrf, id) ==
    LET r == CancelResult(rl, u, csrf, id) IN
    /\ resp' = Response("cancel", r[1], r[2])
    /\ IF r = OK
       THEN subs' = [subs EXCEPT ![id].status = "cancelled"]
       ELSE UNCHANGED subs
    /\ UNCHANGED <<deliveryDays, pauses, users, now>>

---------------------------------------------------------------------------
(* Pricing, and the rows create and edit write *)

\* price_per_meal * mealTypes.length * deliveryDays.length * 4.3
ExpectedPrice(pricePerMeal, mealTypeCount, deliveryDayCount) ==
    (pricePerMeal * mealTypeCount * deliveryDayCount * 43) \div 10

NotANumber == -1          \* a totalPrice that is missing or not a JSON number

\* typeof body.totalPrice === 'number' ? body.totalPrice : 0
NumberOrZero(totalPrice) == IF totalPrice = NotANumber THEN 0 ELSE totalPrice

\* variant: a tolerance of 2
PriceMismatch_Tolerance2(totalPrice, expectedPrice) ==
    Abs(totalPrice - expectedPrice) > 2

\* Math.abs(totalPrice - expectedPrice) > 1
PriceMismatch(totalPrice, expectedPrice) == Abs(totalPrice - expectedPrice) > 1

\* variant: total_price: totalPrice, the price the client submitted
StoredPrice_Submitted(totalPrice, expectedPrice) == totalPrice

\* total_price: expectedPrice
StoredPrice(totalPrice, expectedPrice) == expectedPrice

\* validMealTypes.includes(mealType.toLowerCase()), for every meal type
MealTypesValid(mealTypes) ==
    \A i \in 1..Len(mealTypes) : ToLower(mealTypes[i]) \in validMealTypes

\* validDeliveryDays.includes(day.toLowerCase()), for every day
DeliveryDaysValid(days) ==
    \A i \in 1..Len(days) : ToLower(days[i]) \in validDeliveryDays

\* MEAL_TYPE_MAP[mealType] !== undefined, for every meal type
MealTypesMapped(mealTypes) ==
    \A i \in 1..Len(mealTypes) : mealTypes[i] \in DOMAIN MEAL_TYPE_MAP

MealTypeNumber(mealType) == MEAL_TYPE_MAP[mealType]

MealTypeNumbers(mealTypes) ==
    [i \in 1..Len(mealTypes) |-> MealTypeNumber(mealTypes[i])]

\* JSON.stringify({allergies: allergies || null, meal_types: mealTypeNumbers})
Envelope(allergies, mealTypeNumbers) ==
    [allergies |-> IF allergies = "" THEN "null" ELSE allergies,
     meal_types |-> mealTypeNumbers]

SubscriptionRow(u, planId, mealTypeNumbers, price, allergies, status) ==
    [user_id |-> u, meal_plan_id |-> planId, meal_type |-> mealTypeNumbers[1],
     total_price |-> price, allergies |-> Envelope(allergies, mealTypeNumbers),
     status |-> status]

---------------------------------------------------------------------------
(* PUT /api/subscriptions/[id]  (edit) *)

\* DAY_OF_WEEK_MAP[day.toLowerCase()]
EditDayNumber(day) == DAY_OF_WEEK_MAP[ToLower(day)]

\* variant: the delete without its where clause
ReplaceDays_DeleteAll(id, days) ==
    [other \in DOMAIN deliveryDays |->
        IF other = id THEN [i \in 1..Len(days) |-> EditDayNumber(days[i])]
        ELSE <<>>]

\* variant: the insert without the delete before it
ReplaceDays_Merge(id, days) ==
    [deliveryDays EXCEPT ![id] =
        @ \o [i \in 1..Len(days) |-> EditDayNumber(days[i])]]

\* delete from delivery_days where subscription_id = id, then
\* insert into delivery_days values(deliveryDayInserts)
ReplaceDays(id, days) ==
    [deliveryDays EXCEPT ![id] = [i \in 1..Len(days) |-> EditDayNumber(days[i])]]

EditResult(rl, u, csrf, id, planId, mealTypes, days, allergies, totalPrice) ==
    IF Preamble(rl, u, csrf) # OK THEN Preamble(rl, u, csrf)
    ELSE IF InvalidId(id) THEN <<400, "Invalid subscription ID">>
    ELSE IF ~validAllergies(allergies) THEN <<400, "Invalid input data">>
    ELSE IF planId <= 0 \/ Len(mealTypes) = 0 \/ Len(days) = 0
        THEN <<400, "Missing required fields">>
    ELSE IF ~MealTypesValid(mealTypes) THEN <<400, "Invalid meal type">>
    ELSE IF ~DeliveryDaysValid(days) THEN <<400, "Invalid delivery day">>
    ELSE IF SelectSubscription(id, u) = <<>>
        THEN <<404, "Subscription not found or access denied">>
    ELSE IF ~MealTypesMapped(mealTypes) THEN <<500, "Failed to update subscription">>
    ELSE IF planId \notin DOMAIN mealPlans THEN <<400, "Invalid meal plan">>
    ELSE IF PriceMismatch(totalPrice,
                ExpectedPrice(mealPlans[planId], Len(mealTypes), Len(days)))
        THEN <<400, "Price mismatch">>
    ELSE OK

Edit(rl, u, csrf, id, planId, rawMealTypes, rawDays, allergies, totalPrice) ==
    LET mealTypes == sanitizeAll(rawMealTypes)
        days == sanitizeAll(rawDays)
        r == EditResult(rl, u, csrf, id, planId, mealTypes, days, allergies,
                        NumberOrZero(totalPrice))
    IN
    /\ resp' = Response("edit", r[1], r[2])
    /\ IF r = OK
       THEN LET expectedPrice ==
                    ExpectedPrice(mealPlans[planId], Len(mealTypes), Len(days))
                row == SubscriptionRow(u, planId,
                           MealTypeNumbers(mealTypes),
                           StoredPrice(NumberOrZero(totalPrice), expectedPrice),
                           allergies, "")
            IN
            /\ subs' = [subs EXCEPT ![id].meal_plan_id = row.meal_plan_id,
                                    ![id].meal_type = row.meal_type,
                                    ![id].total_price = row.total_price,
                                    ![id].allergies = row.allergies]
            /\ deliveryDays' = ReplaceDays(id, days)
       ELSE UNCHANGED <<subs, deliveryDays>>
    /\ UNCHANGED <<pauses, users, now>>

---------------------------------------------------------------------------
(* POST /api/subscriptions/my-subscriptions  (create) *)

\* the delivery-day loop: DAY_OF_WEEK_MAP[day] for each day in turn, throwing
\* at the first day that has no entry; the rows before it are inserted
MappedPrefix(days) ==
    IF \A i \in 1..Len(days) : days[i] \in DOMAIN DAY_OF_WEEK_MAP
    THEN Len(days)
    ELSE (CHOOSE i \in 1..Len(days) :
              /\ days[i] \notin DOMAIN DAY_OF_WEEK_MAP
              /\ \A j \in 1..(i - 1) : days[j] \in DOMAIN DAY_OF_WEEK_MAP) - 1

CreateDayNumber(day) == DAY_OF_WEEK_MAP[day]

\* the checks made before the first storage access
CreateValidation(rl, u, csrf, name, phone, plan, mealTypes, days, allergies) ==
    IF Preamble(rl, u, csrf) # OK THEN Preamble(rl, u, csrf)
    ELSE IF ~(validName(name) /\ validPhone(phone) /\ validAllergies(allergies))
        THEN <<400, "Invalid input data">>
    ELSE IF name = "" \/ phone = "" \/ Len(mealTypes) = 0 \/ Len(days) = 0
        THEN <<400, "Missing required fields">>
    ELSE IF ~MealTypesValid(mealTypes) THEN <<400, "Invalid meal type">>
    ELSE IF ~DeliveryDaysValid(days) THEN <<400, "Invalid delivery day">>
    ELSE IF plan <= 0 THEN <<400, "Invalid plan ID">>
    ELSE IF u \notin DOMAIN users THEN <<404, "User not found">>
    ELSE OK

\* the checks made between the users update and the subscriptions insert;
\* each of them throws, which the catch block answers with 500
CreateChecks(plan, mealTypes, days, totalPrice) ==
    IF plan \notin DOMAIN mealPlans
        THEN <<500, "Failed to create subscription">>
    ELSE IF ~MealTypesMapped(mealTypes)
        THEN <<500, "Failed to create subscription">>
    ELSE IF PriceMismatch(totalPrice,
                ExpectedPrice(mealPlans[plan], Len(mealTypes), Len(days)))
        THEN <<500, "Failed to create subscription">>
    ELSE OK

Create(rl, u, csrf, name, phone, plan, rawMealTypes, rawDays, allergies, totalPrice) ==
    LET mealTypes == sanitizeAll(rawMealTypes)
        days == sanitizeAll(rawDays)
        v == CreateValidation(rl, u, csrf, name, phone, plan, mealTypes, days,
                              allergies)
        c == CreateChecks(plan, mealTypes, days, NumberOrZero(totalPrice))
        id == Len(subs) + 1
    IN
    IF v # OK
    THEN /\ resp' = Response("create", v[1], v[2])
         /\ UNCHANGED <<subs, deliveryDays, pauses, users, now>>
    ELSE
    /\ users' = IF phone # users[u] THEN [users EXCEPT ![u] = phone] ELSE users
    /\ IF c # OK
       THEN /\ resp' = Response("create", c[1], c[2])
            /\ UNCHANGED <<subs, deliveryDays>>
       ELSE LET expectedPrice ==
                    ExpectedPrice(mealPlans[plan], Len(mealTypes), Len(days))
            IN
            /\ Len(subs) < MaxSubs
            /\ subs' = Append(subs,
                   SubscriptionRow(u, plan, MealTypeNumbers(mealTypes),
                       StoredPrice(NumberOrZero(totalPrice), expectedPrice),
                       allergies, "active"))
            /\ deliveryDays' = [deliveryDays EXCEPT ![id] =
                   [i \in 1..MappedPrefix(days) |-> CreateDayNumber(days[i])]]
            /\ resp' = IF MappedPrefix(days) = Len(days)
                       THEN Response("create", 200, "")
                       ELSE Response("create", 500,
                                     "Failed to create subscription")
    /\ UNCHANGED <<pauses, now>>

---------------------------------------------------------------------------
(* The handlers over a storage that may fail.  A handler's storage          *)
(* operations are numbered in the order it issues them; a fault makes one   *)
(* of them fail, `failures` times in a row, with a transient error          *)
(* (timeout, connect, ECONNRESET) or with another one.                      *)

\* withRetry(operation, maxRetries = 3, delay = 1000)
maxRetries == 3

NoFault == [op |-> 0, failures |-> 0, transient |-> TRUE]

\* one timeout, as many timeouts as withRetry makes attempts, or one error
\* that is not a timeout
Faults ==
    {NoFault} \cup
    {[op |-> k, failures |-> n, transient |-> TRUE] :
        k \in 1..5, n \in {1, maxRetries}} \cup
    {[op |-> k, failures |-> 1, transient |-> FALSE] : k \in 1..5}

\* withRetry(operation) returns: the operation is attempted again after a
\* timeout error until the attempt numbered maxRetries
withRetry(fault, k) ==
    \/ fault.op # k
    \/ fault.transient /\ fault.failures < maxRetries

\* await db...: a storage operation that is not wrapped in withRetry
Direct(fault, k) == fault.op # k

PreambleErrors ==
    {"Too many requests. Please try again later.", "Authentication required",
     "CSRF validation failed"}

\* the rejections edit returns before its first storage operation
EditInputErrors ==
    PreambleErrors \cup
    {"Invalid subscription ID", "Invalid input data", "Missing required fields",
     "Invalid meal type", "Invalid delivery day"}

\* edit: 1 select subscription, 2 select meal plan, 3 update subscription,
\* 4 delete delivery days, 5 insert delivery days, each in withRetry
EditStorage(rl, u, csrf, id, planId, rawMealTypes, rawDays, allergies, totalPrice, fault) ==
    LET mealTypes == sanitizeAll(rawMealTypes)
        days == sanitizeAll(rawDays)
        r == EditResult(rl, u, csrf, id, planId, mealTypes, days, allergies,
                        NumberOrZero(totalPrice))
        failed == Response("edit", 500, "Failed to update subscription")
        updated ==
            [subs EXCEPT ![id].meal_plan_id = planId,
                         ![id].meal_type = MealTypeNumbers(mealTypes)[1],
                         ![id].total_price =
                             StoredPrice(NumberOrZero(totalPrice),
                                 ExpectedPrice(mealPlans[planId], Len(mealTypes),
                                               Len(days))),
                         ![id].allergies =
                             Envelope(allergies, MealTypeNumbers(mealTypes))]
    IN
    /\ UNCHANGED <<pauses, users, now>>
    /\ IF r[2] \in EditInputErrors
       THEN resp' = Response("edit", r[1], r[2]) /\ UNCHANGED <<subs, deliveryDays>>
       ELSE IF ~withRetry(fault, 1)
       THEN resp' = failed /\ UNCHANGED <<subs, deliveryDays>>
       ELSE IF r[1] \in {404, 500}
       THEN resp' = Response("edit", r[1], r[2]) /\ UNCHANGED <<subs, deliveryDays>>
       ELSE IF ~withRetry(fault, 2)
       THEN resp' = failed /\ UNCHANGED <<subs, deliveryDays>>
       ELSE IF r # OK
       THEN resp' = Response("edit", r[1], r[2]) /\ UNCHANGED <<subs, deliveryDays>>
       ELSE IF ~withRetry(fault, 3)
       THEN resp' = failed /\ UNCHANGED <<subs, deliveryDays>>
       ELSE IF ~withRetry(fault, 4)
       THEN resp' = failed /\ subs' = updated /\ UNCHANGED deliveryDays
       ELSE IF ~withRetry(fault, 5)
       THEN /\ resp' = failed
            /\ subs' = updated
            /\ deliveryDays' = [deliveryDays EXCEPT ![id] = <<>>]
       ELSE /\ resp' = Response("edit", 200, "")
            /\ subs' = updated
            /\ deliveryDays' = ReplaceDays(id, days)

\* the rejections pause returns before its first storage operation
PauseInputErrors ==
    PreambleErrors \cup
    {"Invalid subscription ID", "Start date is required",
     "Invalid start date format", "Start date must be after today",
     "End date must be after start date"}

\* pause: 1 select subscription, 2 select open pause record, 3 insert pause
\* record, 4 update status; none of them in withRetry
PauseStorage(rl, u, csrf, id, startDate, endDate, fault) ==
    LET r == PauseResult(rl, u, csrf, id, startDate, endDate)
        failed == Response("pause", 500, "Internal server error")
    IN
    /\ UNCHANGED <<deliveryDays, users, now>>
    /\ IF r[2] \in PauseInputErrors
       THEN resp' = Response("pause", r[1], r[2]) /\ UNCHANGED <<subs, pauses>>
       ELSE IF ~Direct(fault, 1)
       THEN resp' = failed /\ UNCHANGED <<subs, pauses>>
       ELSE IF r[2] \in {"Subscription not found",
                         "Only active subscriptions can be paused"}
       THEN resp' = Response("pause", r[1], r[2]) /\ UNCHANGED <<subs, pauses>>
       ELSE IF ~Direct(fault, 2)
       THEN resp' = failed /\ UNCHANGED <<subs, pauses>>
       ELSE IF r # OK
       THEN resp' = Response("pause", r[1], r[2]) /\ UNCHANGED <<subs, pauses>>
       ELSE IF ~Direct(fault, 3)
       THEN resp' = failed /\ UNCHANGED <<subs, pauses>>
       ELSE /\ Len(pauses) < MaxPauses
            /\ pauses' = Append(pauses, PauseRow(id, startDate, endDate))
            /\ IF ~Direct(fault, 4)
               THEN resp' = failed /\ UNCHANGED subs
               ELSE /\ resp' = Response("pause", 200, "")
                    /\ subs' = [subs EXCEPT ![id].status = "paused"]

\* resume: 1 select subscription, 2 select pause record, 3 insert the missing
\* record or end the one found, 4 end the inserted record, 5 update status;
\* none of them in withRetry
ResumeStorage(rl, u, csrf, id, fault) ==
    LET r == ResumeResult(rl, u, csrf, id)
        rec == SelectPauseRecord(id)
        today == TodayISO(now)
        failed == Response("resume", 500, "Internal server error")
    IN
    /\ UNCHANGED <<deliveryDays, users, now>>
    /\ IF r[2] \in PreambleErrors \cup {"Invalid subscription ID"}
       THEN resp' = Response("resume", r[1], r[2]) /\ UNCHANGED <<subs, pauses>>
       ELSE IF ~Direct(fault, 1)
       THEN resp' = failed /\ UNCHANGED <<subs, pauses>>
       ELSE IF r # OK
       THEN resp' = Response("resume", r[1], r[2]) /\ UNCHANGED <<subs, pauses>>
       ELSE IF ~Direct(fault, 2) \/ ~Direct(fault, 3)
       THEN resp' = failed /\ UNCHANGED <<subs, pauses>>
       ELSE IF rec = 0 /\ ~Direct(fault, 4)
       THEN /\ Len(pauses) < MaxPauses
            /\ resp' = failed
            /\ pauses' = Append(pauses, PauseRow(id, today, NullDate))
            /\ UNCHANGED subs
       ELSE /\ rec = 0 => Len(pauses) < MaxPauses
            /\ pauses' = IF rec = 0 THEN SynthesizePause(id, today)
                         ELSE EndPause(rec, today)
            /\ IF ~Direct(fault, 5)
               THEN resp' = failed /\ UNCHANGED subs
               ELSE /\ resp' = Response("resume", 200, "")
                    /\ subs' = [subs EXCEPT ![id].status = "active"]

\* cancel: 1 select subscription, 2 update status, each in withRetry
CancelStorage(rl, u, csrf, id, fault) ==
    LET r == CancelResult(rl, u, csrf, id)
        failed == Response("cancel", 500, "Failed to cancel subscription")
    IN
    /\ UNCHANGED <<deliveryDays, pauses, users, now>>
    /\ IF r[2] \in PreambleErrors \cup {"Invalid subscription ID"}
       THEN resp' = Response("cancel", r[1], r[2]) /\ UNCHANGED subs
       ELSE IF ~withRetry(fault, 1)
       THEN resp' = failed /\ UNCHANGED subs
       ELSE IF r # OK
       THEN resp' = Response("cancel", r[1], r[2]) /\ UNCHANGED subs
       ELSE IF ~withRetry(fault, 2)
       THEN resp' = failed /\ UNCHANGED subs
       ELSE /\ resp' = Response("cancel", 200, "")
            /\ subs' = [subs EXCEPT ![id].status = "cancelled"]

---------------------------------------------------------------------------
(* The clock *)

Tick ==
    /\ now < MaxNow
    /\ now' = now + 1
    /\ UNCHANGED <<subs, deliveryDays, pauses, users, resp>>
    /\ UNCHANGED env

---------------------------------------------------------------------------
(* Initial states: the database as the deployed handlers find it *)

NoResponse == Response("none", 0, "")

Procs == {1, 2}

Idle == [pc |-> "idle"]

\* a freshly started server: no token issued, no request counted, no handler
\* running
InitEnv ==
    /\ csrfTokens = [u \in UserIds |-> NoEntry]
    /\ requests = [ip \in ClientIPs |-> <<>>]
    /\ issued = <<>>
    /\ inflight = [p \in Procs |-> Idle]

InitUsers == [u \in UserIds |-> IF u = 1 THEN "08110000001" ELSE "08110000002"]

\* a subscription as a successful create of user 1 stores it
CreatedSubscription ==
    SubscriptionRow(1, 1, <<0>>, ExpectedPrice(mealPlans[1], 1, 1), "", "active")

\* a subscription stored as paused with no paused_subscriptions row: the
\* inconsistency RESUME_SUBSCRIPTION_FIX.md reports and resume repairs
LegacySubscription ==
    SubscriptionRow(1, 1, <<0>>, ExpectedPrice(mealPlans[1], 1, 1), "", "paused")

\* the empty database
Init ==
    /\ subs = <<>>
    /\ deliveryDays = [i \in 1..MaxSubs |-> <<>>]
    /\ pauses = <<>>
    /\ users = InitUsers
    /\ now = 0
    /\ resp = NoResponse
    /\ InitEnv

\* one subscription of user 1: created and active, or the legacy paused one
InitPause ==
    /\ subs \in {<<CreatedSubscription>>, <<LegacySubscription>>}
    /\ deliveryDays = [i \in 1..MaxSubs |-> IF i = 1 THEN <<1>> ELSE <<>>]
    /\ pauses = <<>>
    /\ users = InitUsers
    /\ now = 0
    /\ resp = NoResponse
    /\ InitEnv

---------------------------------------------------------------------------
(* Spec: the five lifecycle requests of signed-in users, one at a time, on *)
(* up to MaxSubs subscriptions, at one instant of the clock                 *)

CreateRequest ==
    /\ \E g \in GuardInputs :
           Create(g[1], g[2], g[3], "Ann", users[g[2]], 1, <<"breakfast">>,
                  <<"monday">>, "", ExpectedPrice(mealPlans[1], 1, 1))
    /\ UNCHANGED env

EditRequest ==
    /\ \E g \in GuardInputs, id \in IdInputs :
           Edit(g[1], g[2], g[3], id, 2, <<"breakfast", "lunch">>,
                <<"tuesday", "thursday">>, "", ExpectedPrice(mealPlans[2], 2, 2))
    /\ UNCHANGED env

\* start today (refused), from tomorrow on, or from tomorrow for one day
PauseDates ==
    {<<Today, NullDate>>, <<Today + 1, NullDate>>, <<Today + 1, Today + 2>>}

PauseRequest ==
    /\ \E g \in GuardInputs, id \in IdInputs, d \in PauseDates :
           Pause(g[1], g[2], g[3], id, d[1], d[2])
    /\ UNCHANGED env

ResumeRequest ==
    /\ \E g \in GuardInputs, id \in IdInputs :
           Resume(g[1], g[2], g[3], id)
    /\ UNCHANGED env

CancelRequest ==
    /\ \E g \in GuardInputs, id \in IdInputs :
           Cancel(g[1], g[2], g[3], id)
    /\ UNCHANGED env

Next ==
    \/ CreateRequest
    \/ EditRequest
    \/ PauseRequest
    \/ ResumeRequest
    \/ CancelRequest

Spec == Init /\ [][Next]_vars

---------------------------------------------------------------------------
(* SpecPause: pause, resume and cancel requests with every kind of date,   *)
(* on one subscription, while the days pass                                 *)

PauseAnyDates ==
    /\ \E g \in GuardInputs, id \in IdInputs,
          startDate \in StartInputs, endDate \in EndInputs :
           Pause(g[1], g[2], g[3], id, startDate, endDate)
    /\ UNCHANGED env

NextPause ==
    \/ PauseAnyDates
    \/ ResumeRequest
    \/ CancelRequest
    \/ Tick

SpecPause == InitPause /\ [][NextPause]_vars

---------------------------------------------------------------------------
(* SpecPrice: create and edit requests over plans, meal types, delivery    *)
(* days and submitted prices                                                *)

PlanInputs == 1..3

MealTypeInputs ==
    {<<"breakfast", "lunch">>, <<"breakfast", "lunch", "dinner">>,
     <<"lunch;">>, <<"Lunch">>, <<"brunch">>}

DeliveryDayInputs ==
    {<<"monday", "wednesday", "friday">>, <<"tuesday", " friday">>,
     <<"monday", "monday">>, <<"sunday", "Monday">>, <<"funday">>, <<>>}

\* the price the client computes from the form it submits
ClientPrice(plan, rawMealTypes, rawDays) ==
    ExpectedPrice(IF plan \in DOMAIN mealPlans THEN mealPlans[plan] ELSE 0,
                  Len(rawMealTypes), Len(rawDays))

\* by how much a submitted price may be off
PriceErrors == {-2, -1, 1, 2}

\* the prices submitted with a form whose computed price is price: off by a
\* little, or no number at all
Mispriced(price) == {price + d : d \in PriceErrors} \cup {NotANumber}

CreateForm == <<<<"breakfast", "lunch">>, <<"monday", "wednesday", "friday">>>>

EditForm == <<<<"breakfast", "lunch", "dinner">>, <<"tuesday", " friday">>>>

\* any form, with the price the client computes from it
CreateAny ==
    /\ \E plan \in PlanInputs, mealTypes \in MealTypeInputs,
          days \in DeliveryDayInputs :
           Create(TRUE, 1, TRUE, "Ann", users[1], plan, mealTypes, days, "",
                  ClientPrice(plan, mealTypes, days))
    /\ UNCHANGED env

\* a valid form, with a price that is off
CreateMispriced ==
    /\ \E plan \in DOMAIN mealPlans :
           \E price \in Mispriced(ClientPrice(plan, CreateForm[1], CreateForm[2])) :
               Create(TRUE, 1, TRUE, "Ann", users[1], plan, CreateForm[1],
                      CreateForm[2], "", price)
    /\ UNCHANGED env

EditAny ==
    /\ \E id \in 1..MaxSubs, plan \in PlanInputs, mealTypes \in MealTypeInputs,
          days \in DeliveryDayInputs :
           Edit(TRUE, 1, TRUE, id, plan, mealTypes, days, "",
                ClientPrice(plan, mealTypes, days))
    /\ UNCHANGED env

EditMispriced ==
    /\ \E id \in 1..MaxSubs, plan \in DOMAIN mealPlans :
           \E price \in Mispriced(ClientPrice(plan, EditForm[1], EditForm[2])) :
               Edit(TRUE, 1, TRUE, id, plan, EditForm[1], EditForm[2], "", price)
    /\ UNCHANGED env

NextPrice ==
    \/ CreateAny
    \/ CreateMispriced
    \/ EditAny
    \/ EditMispriced

SpecPrice == Init /\ [][NextPrice]_vars

---------------------------------------------------------------------------
(* SpecMisprice: valid create and edit forms, rightly priced or with      *)
(* prices that are off                                                     *)

NextMisprice ==
    \/ CreateRequest
    \/ EditRequest
    \/ CreateMispriced
    \/ EditMispriced

SpecMisprice == Init /\ [][NextMisprice]_vars

---------------------------------------------------------------------------
(* SpecStorage: edit, pause, resume and cancel requests of signed-in users *)
(* on one subscription, over a storage that may fail                        *)

NextStorage ==
    \/ /\ \E g \in GuardInputs, id \in IdInputs, fault \in Faults :
              EditStorage(g[1], g[2], g[3], id, 2, <<"breakfast", "lunch">>,
                          <<"tuesday", "thursday">>, "",
                          ExpectedPrice(mealPlans[2], 2, 2), fault)
       /\ UNCHANGED env
    \/ /\ \E g \in GuardInputs, id \in IdInputs, d \in PauseDates, fault \in Faults :
              PauseStorage(g[1], g[2], g[3], id, d[1], d[2], fault)
       /\ UNCHANGED env
    \/ /\ \E g \in GuardInputs, id \in IdInputs, fault \in Faults :
              ResumeStorage(g[1], g[2], g[3], id, fault)
       /\ UNCHANGED env
    \/ /\ \E g \in GuardInputs, id \in IdInputs, fault \in Faults :
              CancelStorage(g[1], g[2], g[3], id, fault)
       /\ UNCHANGED env

SpecStorage == InitPause /\ [][NextStorage]_vars

---------------------------------------------------------------------------
(* SpecGuard: requests of any session with any x-csrf-token header, tokens *)
(* fetched from GET /api/auth/csrf-token, while the time passes.  The      *)
(* requests are those the rate limiter admits.                             *)

MaxTokens == 2

\* a header value that was never issued
ForgedToken == MaxTokens + 1

\* the headers a request may carry: none, an issued token, a forged one
TokenInputs == {NoToken, ForgedToken} \cup (1..Len(issued))

\* the subscription the requests name: the one of user 1
GuardedId == 1

\* the phone number the form of user u carries
FormPhone(u) == IF u \in DOMAIN users THEN users[u] ELSE InitUsers[1]

CreateGuarded(u, token) ==
    /\ Create(TRUE, u, validateCSRF(u, token, now), "Ann", FormPhone(u), 1,
              <<"breakfast">>, <<"monday">>, "", ExpectedPrice(mealPlans[1], 1, 1))
    /\ UNCHANGED env

EditGuarded(u, token, id) ==
    /\ Edit(TRUE, u, validateCSRF(u, token, now), id, 2, <<"breakfast", "lunch">>,
            <<"tuesday", "thursday">>, "", ExpectedPrice(mealPlans[2], 2, 2))
    /\ UNCHANGED env

PauseGuarded(u, token, id) ==
    /\ Pause(TRUE, u, validateCSRF(u, token, now), id, Today + 1, NullDate)
    /\ UNCHANGED env

ResumeGuarded(u, token, id) ==
    /\ Resume(TRUE, u, validateCSRF(u, token, now), id)
    /\ UNCHANGED env

CancelGuarded(u, token, id) ==
    /\ Cancel(TRUE, u, validateCSRF(u, token, now), id)
    /\ UNCHANGED env

NextGuard ==
    \/ /\ Len(issued) < MaxTokens
       /\ \E u \in SessionInputs : GetCsrfToken(TRUE, u)
    \/ \E u \in SessionInputs, token \in TokenInputs : CreateGuarded(u, token)
    \/ \E u \in SessionInputs, token \in TokenInputs : EditGuarded(u, token, GuardedId)
    \/ \E u \in SessionInputs, token \in TokenInputs : PauseGuarded(u, token, GuardedId)
    \/ \E u \in SessionInputs, token \in TokenInputs : ResumeGuarded(u, token, GuardedId)
    \/ \E u \in SessionInputs, token \in TokenInputs : CancelGuarded(u, token, GuardedId)
    \/ Tick

SpecGuard == InitPause /\ [][NextGuard]_vars

---------------------------------------------------------------------------
(* SpecRate: read requests of two callers against the rate limiter's log,  *)
(* while the time passes                                                    *)

\* GET /api/subscriptions/my-subscriptions from address ip with the session
\* of u: applyRateLimit, the session check, then the listing, which writes
\* nothing
GetMySubscriptions(ip, u) ==
    LET r == IF ~RateLimitAdmits(ip, now)
                 THEN <<429, "Too many requests. Please try again later.">>
             ELSE IF u = NoSession THEN <<401, "Authentication required">>
             ELSE <<200, "">>
    IN
    /\ resp' = Response("my-subscriptions", r[1], r[2])
    /\ requests' = RateLimitLog(ip, now)
    /\ UNCHANGED <<subs, deliveryDays, pauses, users, now, csrfTokens, issued,
                   inflight>>

\* GET /api/meal-plans from address ip: db.select().from(mealPlansTable) and
\* the answer; the handler takes no request and calls no limiter
GetMealPlans(ip) ==
    /\ resp' = Response("meal-plans", 200, "")
    /\ UNCHANGED <<subs, deliveryDays, pauses, users, now, csrfTokens, requests,
                   issued, inflight>>

NextRate ==
    \/ \E ip \in ClientIPs, u \in SessionInputs : GetMySubscriptions(ip, u)
    \/ \E ip \in ClientIPs : GetMealPlans(ip)
    \/ Tick

SpecRate == InitPause /\ [][NextRate]_vars

---------------------------------------------------------------------------
(* SpecAuto: a subscription that is paused and then left alone while the   *)
(* days pass.  No resume request is made.  The clock never stops, which    *)
(* the weak fairness of NextDay states.                                    *)

MaxDay == 4

\* midnight passes
NextDay ==
    /\ Today < MaxDay
    /\ now' = now + TicksPerDay
    /\ UNCHANGED <<subs, deliveryDays, pauses, users, resp>>
    /\ UNCHANGED env

NextAuto ==
    \/ PauseAnyDates
    \/ CancelRequest
    \/ NextDay

SpecAuto == InitPause /\ [][NextAuto]_vars /\ WF_vars(NextDay)

---------------------------------------------------------------------------
(* SpecAdmin: requests to GET /api/admin/dashboard of callers with and     *)
(* without a session, against the rate limiter's log                       *)

\* db/schema.ts UserRole
Admin == 0
User == 1

\* getServerSession: no session, or the session of a user with a role
RoleInputs == {<<>>, <<Admin>>, <<User>>}

\* variant: any session is let in
NotAdmin_AnySession(session) == session = <<>>

\* !session || !session.user || session.user.role !== UserRole.Admin
NotAdmin(session) == session = <<>> \/ session[1] # Admin

RECURSIVE ActiveRevenue(_)
\* sum(total_price) where status = 'active', over the first n rows
ActiveRevenue(n) ==
    IF n = 0 THEN 0
    ELSE ActiveRevenue(n - 1)
            + (IF subs[n].status = "active" THEN subs[n].total_price ELSE 0)

\* the body of a rejection carries an error and no data
NoData == <<>>

\* dashboardData: the date range the metrics are taken over (the last 30
\* days where a parameter is absent) and the metrics that do not depend on it
DashboardData(startDate, endDate) ==
    <<[dateRange |->
          [startDate |-> IF startDate = NullDate THEN Today - 30 ELSE startDate,
           endDate |-> IF endDate = NullDate THEN Today ELSE endDate],
       mrr |-> ActiveRevenue(Len(subs)),
       activeSubscriptions |->
           Cardinality({i \in 1..Len(subs) : subs[i].status = "active"}),
       totalSubscriptions |-> Len(subs)]>>

\* GET /api/admin/dashboard?startDate=..&endDate=.. from address ip
GetAdminDashboard(ip, session, startDate, endDate) ==
    LET r == IF ~RateLimitAdmits(ip, now)
                 THEN <<429, "Too many requests. Please try again later.">>
             ELSE IF NotAdmin(session)
                 THEN <<403, "Access denied. Admin role required.">>
             ELSE <<200, "">>
    IN
    /\ resp' = [op |-> "admin-dashboard", code |-> r[1], error |-> r[2],
                data |-> IF r[1] = 200 THEN DashboardData(startDate, endDate)
                         ELSE NoData]
    /\ requests' = RateLimitLog(ip, now)
    /\ UNCHANGED <<subs, deliveryDays, pauses, users, now, csrfTokens, issued,
                   inflight>>

\* the query parameters: absent, or a day
RangeInputs == {NullDate, Today}

\* the address of a caller that sends neither x-forwarded-for nor x-real-ip
DashboardCaller == "unknown"

NextAdmin ==
    \/ \E session \in RoleInputs, startDate, endDate \in RangeInputs :
           GetAdminDashboard(DashboardCaller, session, startDate, endDate)
    \/ Tick

SpecAdmin == InitPause /\ [][NextAdmin]_vars

---------------------------------------------------------------------------
(* SpecRetry: one call of withRetry(operation) with the default            *)
(* arguments.  What the operation does at each invocation is given by a    *)
(* script: it resolves, or rejects with an Error of some message.  Every   *)
(* invocation and every setTimeout completes.                              *)

\* delay: number = 1000
DefaultDelay == 1000

Resolves == "resolves"

\* the messages of the errors an operation rejects with, each with the
\* search strings that error.message.includes() finds in it
ErrorMessages ==
    ("Connection timeout" :> {"timeout"}) @@
    ("connect ETIMEDOUT" :> {"connect"}) @@
    ("read ECONNRESET" :> {"ECONNRESET"}) @@
    ("duplicate key value" :> {})

Scripts == [1..maxRetries -> {Resolves} \cup DOMAIN ErrorMessages]

\* variant: every error is taken for a timeout
isTimeoutError_Any(message) == TRUE

\* error.message.includes('timeout') || .includes('connect') ||
\* .includes('ECONNRESET')
isTimeoutError(message) ==
    ErrorMessages[message] \cap {"timeout", "connect", "ECONNRESET"} # {}

\* withRetry is called: attempt = 1, delay = 1000
RetryCall(p, script) ==
    /\ inflight[p] = Idle
    /\ inflight' = [inflight EXCEPT ![p] =
           [pc |-> "operation", attempt |-> 1, delay |-> DefaultDelay,
            script |-> script, invocations |-> 0, waits |-> <<>>,
            result |-> "none"]]
    /\ UNCHANGED <<subs, deliveryDays, pauses, users, now, resp, csrfTokens,
                   requests, issued>>

\* return await operation(), and the catch block up to the setTimeout
RetryOperation(p) ==
    LET c == inflight[p]
        outcome == c.script[c.attempt]
    IN
    /\ c.pc = "operation"
    /\ inflight' = [inflight EXCEPT ![p] =
           [c EXCEPT !.invocations = @ + 1,
                     !.pc = IF outcome = Resolves THEN "returned"
                            ELSE IF c.attempt = maxRetries THEN "thrown"
                            ELSE IF isTimeoutError(outcome) THEN "setTimeout"
                            ELSE "thrown",
                     !.result = IF outcome = Resolves
                                    \/ c.attempt = maxRetries
                                    \/ ~isTimeoutError(outcome)
                                THEN outcome ELSE @]]
    /\ UNCHANGED <<subs, deliveryDays, pauses, users, now, resp, csrfTokens,
                   requests, issued>>

\* await new Promise(resolve => setTimeout(resolve, delay)); delay *= 2;
\* attempt++
RetryWait(p) ==
    LET c == inflight[p] IN
    /\ c.pc = "setTimeout"
    /\ inflight' = [inflight EXCEPT ![p] =
           [c EXCEPT !.waits = Append(@, c.delay),
                     !.delay = @ * 2,
                     !.attempt = @ + 1,
                     !.pc = "operation"]]
    /\ UNCHANGED <<subs, deliveryDays, pauses, users, now, resp, csrfTokens,
                   requests, issued>>

NextRetry ==
    \/ \E script \in Scripts : RetryCall(1, script)
    \/ RetryOperation(1)
    \/ RetryWait(1)

SpecRetry ==
    /\ InitPause
    /\ [][NextRetry]_vars
    /\ WF_vars(RetryOperation(1))
    /\ WF_vars(RetryWait(1))

---------------------------------------------------------------------------
(* SpecEditRace: two edit handlers of the owner that run at the same time  *)
(* on one subscription.  Each of the three writes of an edit is one        *)
(* awaited statement; the writes of the other handler may run between      *)
(* them.  A handler that has answered keeps its request in inflight.       *)

\* the forms the two requests carry: plan, meal types, delivery days
EditForms ==
    {[planId |-> 1, mealTypes |-> <<"breakfast">>, days |-> <<"monday", "tuesday">>],
     [planId |-> 2, mealTypes |-> <<"lunch", "dinner">>, days |-> <<"friday">>]}

FormPrice(form) ==
    ExpectedPrice(mealPlans[form.planId], Len(form.mealTypes), Len(form.days))

\* the request arrives: guards, validation, the selects of the subscription
\* and of the meal plan, and the price check, none of which writes
EditBegin(p, u, id, form) ==
    LET r == EditResult(TRUE, u, TRUE, id, form.planId, sanitizeAll(form.mealTypes),
                        sanitizeAll(form.days), "", FormPrice(form))
    IN
    /\ inflight[p] = Idle
    /\ IF r # OK
       THEN /\ resp' = Response("edit", r[1], r[2])
            /\ UNCHANGED inflight
       ELSE /\ inflight' = [inflight EXCEPT ![p] =
                   [pc |-> "updateSubscription", u |-> u, id |-> id,
                    form |-> form]]
            /\ UNCHANGED resp
    /\ UNCHANGED <<subs, deliveryDays, pauses, users, now, csrfTokens, requests,
                   issued>>

\* await withRetry(db.update(subscriptionsTable).set({...}))
EditUpdate(p) ==
    LET c == inflight[p]
        mealTypeNumbers == MealTypeNumbers(sanitizeAll(c.form.mealTypes))
    IN
    /\ c.pc = "updateSubscription"
    /\ subs' = [subs EXCEPT ![c.id].meal_plan_id = c.form.planId,
                            ![c.id].meal_type = mealTypeNumbers[1],
                            ![c.id].total_price =
                                StoredPrice(FormPrice(c.form), FormPrice(c.form)),
                            ![c.id].allergies = Envelope("", mealTypeNumbers)]
    /\ inflight' = [inflight EXCEPT ![p].pc = "deleteDays"]
    /\ UNCHANGED <<deliveryDays, pauses, users, now, resp, csrfTokens, requests,
                   issued>>

\* await withRetry(db.delete(deliveryDaysTable).where(subscription_id = id))
EditDelete(p) ==
    LET c == inflight[p] IN
    /\ c.pc = "deleteDays"
    /\ deliveryDays' = [deliveryDays EXCEPT ![c.id] = <<>>]
    /\ inflight' = [inflight EXCEPT ![p].pc = "insertDays"]
    /\ UNCHANGED <<subs, pauses, users, now, resp, csrfTokens, requests, issued>>

\* await withRetry(db.insert(deliveryDaysTable).values(deliveryDayInserts)),
\* then the response
EditInsert(p) ==
    LET c == inflight[p]
        days == sanitizeAll(c.form.days)
    IN
    /\ c.pc = "insertDays"
    /\ deliveryDays' = [deliveryDays EXCEPT ![c.id] =
           @ \o [i \in 1..Len(days) |-> EditDayNumber(days[i])]]
    /\ resp' = Response("edit", 200, "")
    /\ inflight' = [inflight EXCEPT ![p].pc = "answered"]
    /\ UNCHANGED <<subs, pauses, users, now, csrfTokens, requests, issued>>

NextEditRace ==
    \/ \E p \in Procs, u \in UserIds, id \in 1..MaxSubs, form \in EditForms :
           EditBegin(p, u, id, form)
    \/ \E p \in Procs : EditUpdate(p)
    \/ \E p \in Procs : EditDelete(p)
    \/ \E p \in Procs : EditInsert(p)

SpecEditRace == InitPause /\ [][NextEditRace]_vars

---------------------------------------------------------------------------
(* SpecPhone: create requests that carry a phone number, which may differ  *)
(* from the one stored for the user, with plans that exist or not and      *)
(* prices that match or not                                                 *)

PhoneInputs == {InitUsers[u] : u \in UserIds}

\* the price of the form, right or too high by 2
FormPrices(plan) ==
    {ClientPrice(plan, CreateForm[1], CreateForm[2]) + d : d \in {0, 2}}

CreateWithPhone ==
    /\ \E u \in UserIds, phone \in PhoneInputs, plan \in PlanInputs :
          \E price \in FormPrices(plan) :
              Create(TRUE, u, TRUE, "Ann", phone, plan, CreateForm[1],
                     CreateForm[2], "", price)
    /\ UNCHANGED env

NextPhone ==
    \/ CreateWithPhone
    \/ CancelRequest

SpecPhone == Init /\ [][NextPhone]_vars

---------------------------------------------------------------------------
(* SpecLimiter: the limiter createRateLimiter(5, 15 * 60 * 1000) called by *)
(* two identifiers at times that never go back.  `requests` is the         *)
(* limiter's map; inflight[1] is the caller: the clock in milliseconds and *)
(* the calls made so far, each with its verdict.                           *)

\* authRateLimiter = createRateLimiter(5, 15 * 60 * 1000)
authMaxRequests == 5
authWindowMs == 900000

MaxCalls == 7

\* by how much the clock moves between two calls: not at all, half a
\* window, or one millisecond less
Advances == {0, authWindowMs \div 2, (authWindowMs \div 2) - 1}

\* variant: the ceiling is passed only when it is exceeded
createRateLimiter_OneMore(maxReq, window, userRequests, time) ==
    LET valid == SelectSeq(userRequests, LAMBDA t : t > time - window) IN
    IF Len(valid) > maxReq
    THEN [allowed |-> FALSE, requests |-> userRequests]
    ELSE [allowed |-> TRUE, requests |-> Append(valid, time)]

\* the function createRateLimiter(maxReq, window) returns, applied at
\* Date.now() = time to the timestamps stored for the identifier: the
\* verdict and the timestamps stored afterwards
createRateLimiter(maxReq, window, userRequests, time) ==
    LET valid == SelectSeq(userRequests, LAMBDA t : t > time - window) IN
    IF Len(valid) >= maxReq
    THEN [allowed |-> FALSE, requests |-> userRequests]
    ELSE [allowed |-> TRUE, requests |-> Append(valid, time)]

\* the caller before its first call
NoCalls == [pc |-> "caller", clock |-> 0, calls |-> <<>>]

Caller == IF inflight[1] = Idle THEN NoCalls ELSE inflight[1]

\* authRateLimiter(identifier), after the clock has moved by advance
LimiterCall(identifier, advance) ==
    LET time == Caller.clock + advance
        r == createRateLimiter(authMaxRequests, authWindowMs,
                               requests[identifier], time)
    IN
    /\ Len(Caller.calls) < MaxCalls
    /\ requests' = [requests EXCEPT ![identifier] = r.requests]
    /\ inflight' = [inflight EXCEPT ![1] =
           [Caller EXCEPT !.clock = time,
                          !.calls = Append(@, [identifier |-> identifier,
                                               time |-> time,
                                               allowed |-> r.allowed])]]
    /\ UNCHANGED <<subs, deliveryDays, pauses, users, now, resp, csrfTokens,
                   issued>>

NextLimiter ==
    \E identifier \in ClientIPs, advance \in Advances :
        LimiterCall(identifier, advance)

SpecLimiter == InitPause /\ [][NextLimiter]_vars

---------------------------------------------------------------------------
(* SpecConcurrent: pause handlers of signed-in users that run at the same  *)
(* time.  A handler yields at every await: between two of its storage      *)
(* operations the operations of the other handler may run.                  *)

\* the request arrives: the guards and the checks of the dates, which touch
\* no storage; a request that passes them goes on to its first query
PauseBegin(p, u, id, startDate, endDate) ==
    LET r == PauseResult(TRUE, u, TRUE, id, startDate, endDate) IN
    /\ inflight[p] = Idle
    /\ IF r[2] \in PauseInputErrors
       THEN /\ resp' = Response("pause", r[1], r[2])
            /\ UNCHANGED inflight
       ELSE /\ inflight' = [inflight EXCEPT ![p] =
                   [pc |-> "selectSubscription", u |-> u, id |-> id,
                    startDate |-> startDate, endDate |-> endDate]]
            /\ UNCHANGED resp
    /\ UNCHANGED <<subs, deliveryDays, pauses, users, now, csrfTokens, requests,
                   issued>>

\* await db.select().from(subscriptionsTable)..., then the status check
PauseSelectSubscription(p) ==
    LET c == inflight[p] IN
    /\ c.pc = "selectSubscription"
    /\ IF SelectSubscription(c.id, c.u) = <<>>
       THEN /\ resp' = Response("pause", 404, "Subscription not found")
            /\ inflight' = [inflight EXCEPT ![p] = Idle]
       ELSE IF NotActive(subs[c.id])
       THEN /\ resp' = Response("pause", 400,
                                "Only active subscriptions can be paused")
            /\ inflight' = [inflight EXCEPT ![p] = Idle]
       ELSE /\ inflight' = [inflight EXCEPT ![p].pc = "selectPause"]
            /\ UNCHANGED resp
    /\ UNCHANGED <<subs, deliveryDays, pauses, users, now, csrfTokens, requests,
                   issued>>

\* await db.select().from(pausedSubscriptionsTable)...: existingPause
PauseSelectPause(p) ==
    LET c == inflight[p] IN
    /\ c.pc = "selectPause"
    /\ IF ExistingPause(c.id) # {}
       THEN /\ resp' = Response("pause", 400, "Subscription is already paused")
            /\ inflight' = [inflight EXCEPT ![p] = Idle]
       ELSE /\ inflight' = [inflight EXCEPT ![p].pc = "insertPause"]
            /\ UNCHANGED resp
    /\ UNCHANGED <<subs, deliveryDays, pauses, users, now, csrfTokens, requests,
                   issued>>

\* await db.insert(pausedSubscriptionsTable).values(...)
PauseInsert(p) ==
    LET c == inflight[p] IN
    /\ c.pc = "insertPause"
    /\ Len(pauses) < MaxPauses
    /\ pauses' = Append(pauses, PauseRow(c.id, c.startDate, c.endDate))
    /\ inflight' = [inflight EXCEPT ![p].pc = "updateStatus"]
    /\ UNCHANGED <<subs, deliveryDays, users, now, resp, csrfTokens, requests,
                   issued>>

\* await db.update(subscriptionsTable).set({ status: 'paused' })..., then the
\* response
PauseUpdate(p) ==
    LET c == inflight[p] IN
    /\ c.pc = "updateStatus"
    /\ subs' = [subs EXCEPT ![c.id].status = "paused"]
    /\ resp' = Response("pause", 200, "")
    /\ inflight' = [inflight EXCEPT ![p] = Idle]
    /\ UNCHANGED <<deliveryDays, pauses, users, now, csrfTokens, requests,
                   issued>>

NextConcurrent ==
    \/ \E p \in Procs, u \in UserIds, id \in IdInputs, d \in PauseDates :
           PauseBegin(p, u, id, d[1], d[2])
    \/ \E p \in Procs : PauseSelectSubscription(p)
    \/ \E p \in Procs : PauseSelectPause(p)
    \/ \E p \in Procs : PauseInsert(p)
    \/ \E p \in Procs : PauseUpdate(p)

SpecConcurrent == InitPause /\ [][NextConcurrent]_vars

---------------------------------------------------------------------------
(* Properties *)

LegalTransitions ==
    {<<"active", "paused">>, <<"paused", "active">>,
     <<"active", "cancelled">>, <<"paused", "cancelled">>}

\* the request passes the guards and addresses a subscription of its user
Owned(u, id) == id \in 1..Len(subs) /\ subs[id].user_id = u

\* start after today, end absent or after start
ValidDates(startDate, endDate) ==
    /\ startDate >= 0
    /\ startDate > Today
    /\ endDate = NullDate \/ (endDate >= 0 /\ endDate > startDate)

LatestRecord(id) == CHOOSE i \in RecordsOf(id) : \A j \in RecordsOf(id) : j <= i

\* C1: under any sequence of create, edit, pause, resume and cancel requests
\* no subscription row disappears, and every change of a status is one of
\* active->paused, paused->active, active->cancelled, paused->cancelled; a
\* cancelled subscription keeps that status.
C1_StatusTransitions ==
    [][/\ Len(subs') >= Len(subs)
       /\ \A id \in 1..Len(subs) :
             subs'[id].status # subs[id].status
                 => <<subs[id].status, subs'[id].status>> \in LegalTransitions]_vars

\* a request has just been refused on a cancelled subscription
C1_Witness ==
    /\ Len(subs) = 1
    /\ subs[1].status = "cancelled"
    /\ resp = Response("resume", 400, "Only paused subscriptions can be resumed")

\* C2: a successful resume of a subscription that has pause records sets the
\* end date of the most recently inserted one (largest id) to today.
C2_ResumeClosesLatest ==
    [][\A g \in GuardInputs, id \in IdInputs :
          (/\ Resume(g[1], g[2], g[3], id)
           /\ Owned(g[2], id)
           /\ subs[id].status = "paused"
           /\ RecordsOf(id) # {})
              => pauses'[LatestRecord(id)].end_date = Today]_vars

\* C3: resuming a paused subscription that has no pause record succeeds; the
\* status becomes active and the subscription has exactly one pause record,
\* with start date = end date = today.
C3_ResumeWithoutRecord ==
    [][\A g \in GuardInputs, id \in IdInputs :
          (/\ Resume(g[1], g[2], g[3], id)
           /\ Owned(g[2], id)
           /\ subs[id].status = "paused"
           /\ RecordsOf(id) = {})
              => /\ resp' = Response("resume", 200, "")
                 /\ subs'[id].status = "active"
                 /\ Len(pauses') = Len(pauses) + 1
                 /\ \A i \in 1..Len(pauses') :
                       pauses'[i].subscription_id = id
                           => /\ i = Len(pauses')
                              /\ pauses'[i].start_date = Today
                              /\ pauses'[i].end_date = Today]_vars

\* the legacy subscription has been resumed: it is active and its one pause
\* record starts and ends on the day of the request
C3_Witness ==
    /\ resp = Response("resume", 200, "")
    /\ now = 0
    /\ subs[1].status = "active"
    /\ pauses = <<PauseRow(1, 0, 0)>>

C5_ResumeNotPaused ==
    [][\A g \in GuardInputs, id \in IdInputs :
          (/\ Resume(g[1], g[2], g[3], id)
           /\ Owned(g[2], id)
           /\ subs[id].status # "paused")
              => /\ resp' = Response("resume", 400,
                                     "Only paused subscriptions can be resumed")
                 /\ UNCHANGED <<subs, pauses>>]_vars

\* a resume has just been refused on an active subscription that has been
\* paused and resumed before
C5_Witness ==
    /\ Len(subs) = 1
    /\ subs[1].status = "active"
    /\ pauses # <<>>
    /\ resp = Response("resume", 400, "Only paused subscriptions can be resumed")

\* C6: a pause request whose start date is today or earlier fails with
\* 'Start date must be after today' for every subscription status, inserts
\* no pause record and leaves the status unchanged; and a pause of an active
\* subscription with start date = tomorrow and no end date succeeds, giving
\* status paused and a record with end = null.
C6_StartAfterToday ==
    [][\A g \in GuardInputs, id \in IdInputs :
          /\ \A startDate \in StartInputs, endDate \in EndInputs :
                (/\ Pause(g[1], g[2], g[3], id, startDate, endDate)
                 /\ startDate >= 0
                 /\ startDate <= Today)
                    => /\ resp' = Response("pause", 400,
                                           "Start date must be after today")
                       /\ UNCHANGED <<subs, pauses>>
          /\ (/\ Pause(g[1], g[2], g[3], id, Today + 1, NullDate)
              /\ Owned(g[2], id)
              /\ subs[id].status = "active")
                 => /\ resp' = Response("pause", 200, "")
                    /\ subs'[id].status = "paused"
                    /\ pauses' = Append(pauses, PauseRow(id, Today + 1, NullDate))
      ]_vars

\* C7: a cancel request on a subscription that is already cancelled is not
\* answered with success.
C7_CancelTwiceFails ==
    [][\A g \in GuardInputs, id \in IdInputs :
          (/\ Cancel(g[1], g[2], g[3], id)
           /\ Owned(g[2], id)
           /\ subs[id].status = "cancelled")
              => resp'.code # 200]_vars

\* a pause record is open when its end date is null or after today
Open(i) == pauses[i].end_date = NullDate \/ pauses[i].end_date > Today

\* C8: a paused subscription has at most one open pause record.
C8_OneOpenPause ==
    \A id \in 1..Len(subs) :
        subs[id].status = "paused"
            => Cardinality({i \in RecordsOf(id) : Open(i)}) <= 1

PriceMatches(sub, dayRows) ==
    sub.total_price * 10 =
        mealPlans[sub.meal_plan_id] * Len(sub.allergies.meal_types)
            * Len(dayRows) * 43

\* C10: after every successful create and every successful edit the stored
\* total_price of the subscription written is the computed price, whatever
\* price within the tolerance the client submitted.
C10_StoredPrice ==
    [][resp'.code = 200
          => \A id \in 1..Len(subs') :
                (\/ id > Len(subs)
                 \/ subs'[id] # subs[id]
                 \/ deliveryDays'[id] # deliveryDays[id])
                    => PriceMatches(subs'[id], deliveryDays'[id])]_vars

\* the two priced scenarios: 30000 x 2 x 3 created, 40000 x 3 x 2 after an edit
C10_Witness ==
    /\ resp = Response("edit", 200, "")
    /\ Len(subs) = 2
    /\ subs[1].total_price = 774000
    /\ subs[1].meal_plan_id = 1
    /\ Len(subs[1].allergies.meal_types) = 2
    /\ Len(deliveryDays[1]) = 3
    /\ subs[2].total_price = 1032000
    /\ subs[2].meal_plan_id = 2
    /\ Len(subs[2].allergies.meal_types) = 3
    /\ Len(deliveryDays[2]) = 2

\* the submitted price is no number or further than 1 from the computed one
OffPrice(price, plan, form) ==
    \/ price = NotANumber
    \/ Abs(price - ClientPrice(plan, form[1], form[2])) > 1

\* C11: a create or an edit whose submitted price differs from the computed
\* price by more than 1, or is no number, is not accepted, and it leaves every
\* subscription row and every delivery-day row as it was.
C11_PriceTolerance ==
    [][\A plan \in DOMAIN mealPlans :
          /\ \A price \in Mispriced(ClientPrice(plan, CreateForm[1], CreateForm[2])) :
                (/\ Create(TRUE, 1, TRUE, "Ann", users[1], plan, CreateForm[1],
                           CreateForm[2], "", price)
                 /\ OffPrice(price, plan, CreateForm))
                    => /\ resp'.code # 200
                       /\ UNCHANGED <<subs, deliveryDays>>
          /\ \A id \in 1..Len(subs) :
                \A price \in Mispriced(ClientPrice(plan, EditForm[1], EditForm[2])) :
                    (/\ Edit(TRUE, 1, TRUE, id, plan, EditForm[1], EditForm[2],
                             "", price)
                     /\ OffPrice(price, plan, EditForm))
                        => /\ resp'.code # 200
                           /\ UNCHANGED <<subs, deliveryDays>>
      ]_vars

\* an edit of a stored subscription has just been refused for its price
C11_Witness ==
    /\ resp = Response("edit", 400, "Price mismatch")
    /\ Len(subs) >= 1

\* the weekday numbers of the days a form submits
Weekdays(rawDays) ==
    {DAY_OF_WEEK_MAP[ToLower(sanitizeInput(rawDays[i]))] : i \in 1..Len(rawDays)}

\* after the step the rows of id are the submitted days, one row per day, and
\* the rows of every other subscription are the ones before the step
DaysReplaced(id, rawDays) ==
    /\ {deliveryDays'[id][i] : i \in 1..Len(deliveryDays'[id])} = Weekdays(rawDays)
    /\ Len(deliveryDays'[id]) = Len(rawDays)
    /\ \A other \in (1..MaxSubs) \ {id} : deliveryDays'[other] = deliveryDays[other]

\* C12: after a successful edit the delivery-day rows of the edited
\* subscription are exactly the weekdays the edit submitted (no row of a day
\* that was stored before and not resubmitted remains), and the rows of every
\* other subscription are unchanged.
C12_DaysReplaced ==
    [][\A id \in 1..Len(subs) :
          /\ \A g \in GuardInputs :
                (/\ Edit(g[1], g[2], g[3], id, 2, <<"breakfast", "lunch">>,
                         <<"tuesday", "thursday">>, "",
                         ExpectedPrice(mealPlans[2], 2, 2))
                 /\ resp'.code = 200)
                    => DaysReplaced(id, <<"tuesday", "thursday">>)
          /\ \A plan \in DOMAIN mealPlans :
                \A price \in Mispriced(ClientPrice(plan, EditForm[1], EditForm[2])) :
                    (/\ Edit(TRUE, 1, TRUE, id, plan, EditForm[1], EditForm[2],
                             "", price)
                     /\ resp'.code = 200)
                        => DaysReplaced(id, EditForm[2])
      ]_vars

\* monday, wednesday, friday were stored; the edit submitted tuesday, friday
C12_Witness ==
    /\ resp = Response("edit", 200, "")
    /\ \E id \in 1..Len(subs) :
          /\ deliveryDays[id] = <<2, 5>>
          /\ subs[id].total_price = ExpectedPrice(mealPlans[1], 3, 2)

\* C13: a request that is not answered with success leaves the subscription
\* rows, the delivery-day rows and the pause records as they were (a failed
\* storage write leaves the complete pre-operation state); and no state has a
\* subscription whose stored price disagrees with its plan, meal types and
\* delivery-day rows.
C13_AllOrNothing ==
    /\ [][resp'.code # 200 => UNCHANGED <<subs, deliveryDays, pauses>>]_vars
    /\ [](\A id \in 1..Len(subs) : PriceMatches(subs[id], deliveryDays[id]))

\* a single timeout of one storage operation
SingleTimeouts ==
    {fault \in Faults : fault.op # 0 /\ fault.transient /\ fault.failures = 1}

\* C19: a single transient failure of one storage operation does not fail an
\* edit, a pause, a resume or a cancel: the request is answered as it is
\* without the failure.
C19_TransientRetried ==
    [][\A g \in GuardInputs, id \in IdInputs, fault \in SingleTimeouts :
          /\ EditStorage(g[1], g[2], g[3], id, 2, <<"breakfast", "lunch">>,
                         <<"tuesday", "thursday">>, "",
                         ExpectedPrice(mealPlans[2], 2, 2), fault)
                => resp'.code # 500
          /\ CancelStorage(g[1], g[2], g[3], id, fault) => resp'.code # 500
          /\ ResumeStorage(g[1], g[2], g[3], id, fault) => resp'.code # 500
          /\ \A d \in PauseDates :
                PauseStorage(g[1], g[2], g[3], id, d[1], d[2], fault)
                    => resp'.code # 500
      ]_vars

\* C14: of the pause requests that run concurrently against one subscription
\* at most one inserts a pause record: where pause requests are the only
\* requests, no subscription ever has two pause records.
C14_OnePauseWins ==
    \A id \in 1..Len(subs) : Cardinality(RecordsOf(id)) <= 1

\* the step changes no subscription row, delivery-day row or pause record
NothingWritten == UNCHANGED <<subs, deliveryDays, pauses>>

\* a subscription that exists and belongs to another user than u
Foreign(u, id) == id \in 1..Len(subs) /\ subs[id].user_id # u

C18_MismatchIsBadRequest ==
    [][\A plan \in DOMAIN mealPlans :
          /\ \A price \in Mispriced(ClientPrice(plan, CreateForm[1], CreateForm[2])) :
                (/\ Create(TRUE, 1, TRUE, "Ann", users[1], plan, CreateForm[1],
                           CreateForm[2], "", price)
                 /\ OffPrice(price, plan, CreateForm))
                    => resp'.code = 400
          /\ \A id \in 1..Len(subs) :
                \A price \in Mispriced(ClientPrice(plan, EditForm[1], EditForm[2])) :
                    (/\ Edit(TRUE, 1, TRUE, id, plan, EditForm[1], EditForm[2],
                             "", price)
                     /\ OffPrice(price, plan, EditForm)
                     /\ SelectSubscription(id, 1) # <<>>)
                        => resp'.code = 400
      ]_vars

\* C20: in the listing, paused_until of a paused subscription is the end date
\* of its pause record with the largest id, null when that end date is null
\* or there is no record; of a subscription that is not paused it is null.
C20_PausedUntilLatest ==
    \A id \in 1..Len(subs) :
        pausedUntil(id) =
            IF isPaused(id) /\ RecordsOf(id) # {}
            THEN pauses[LatestRecord(id)].end_date
            ELSE NullDate

\* the header is the token issued last to user u, and its hour is not over
CurrentToken(u, token) ==
    /\ u # NoSession
    /\ token \in 1..Len(issued)
    /\ issued[token].user = u
    /\ \A later \in (token + 1)..Len(issued) : issued[later].user # u
    /\ DateNow(now) <= DateNow(issued[token].time) + CsrfLifetimeMs

CeilingReached(ip) == Len(validRequests(ip, now)) >= maxRequests

\* C17: once maxRequests requests of a caller have been admitted within the
\* window, the caller's next request in that window, to the listing or to
\* GET /api/meal-plans, is answered 429.
C17_CeilingEverywhere ==
    [][\A ip \in ClientIPs :
          (/\ CeilingReached(ip)
           /\ \/ \E u \in SessionInputs : GetMySubscriptions(ip, u)
              \/ GetMealPlans(ip))
              => resp'.code = 429
      ]_vars

\* the subscription is paused, its latest pause record has an end date, and
\* today is past that date
PauseOver(id) ==
    /\ id \in 1..Len(subs)
    /\ isPaused(id)
    /\ RecordsOf(id) # {}
    /\ pauses[LatestRecord(id)].end_date # NullDate
    /\ Today > pauses[LatestRecord(id)].end_date

\* C21: a subscription paused until a date E is active again, and listed with
\* is_paused = false, at some time after E, with no resume request made.
C21_AutoResume ==
    \A id \in 1..MaxSubs :
        PauseOver(id) ~> (id \in 1..Len(subs) /\ ~isPaused(id))

\* C22 as stated: a dashboard request with no session, or with the session
\* of a user who is no admin, is answered 403 and carries no metrics, with or
\* without the startDate and endDate parameters.
C22_Denied403 ==
    [][\A session \in RoleInputs, startDate, endDate \in RangeInputs :
          (/\ session = <<>> \/ session[1] # Admin
           /\ GetAdminDashboard(DashboardCaller, session, startDate, endDate))
              => resp'.code = 403 /\ resp'.data = NoData
      ]_vars

\* C22 amended: such a request carries no metrics; it is answered 403 when
\* the rate limiter admits it and 429 when the caller's address has reached
\* the limiter's ceiling.
C22_DeniedNoMetrics ==
    [][\A session \in RoleInputs, startDate, endDate \in RangeInputs :
          (/\ session = <<>> \/ session[1] # Admin
           /\ GetAdminDashboard(DashboardCaller, session, startDate, endDate))
              => /\ resp'.data = NoData
                 /\ resp'.code = IF CeilingReached(DashboardCaller) THEN 429 ELSE 403
      ]_vars

\* a dashboard request has just been denied for its role; it was the last
\* one the limiter admits in this window
C22_Witness ==
    /\ resp.op = "admin-dashboard"
    /\ resp.code = 403
    /\ CeilingReached(DashboardCaller)

\* C23: an active subscription has no pause record with a null end date, so
\* that no pause request is refused with 'Subscription is already paused'.
C23_ActiveHasNoOpenPause ==
    /\ \A id \in 1..Len(subs) :
          subs[id].status = "active" => ExistingPause(id) = {}
    /\ resp # Response("pause", 400, "Subscription is already paused")

\* the call of withRetry has returned or thrown
RetryOver == inflight[1].pc \in {"returned", "thrown"}

\* the outcomes after which withRetry does not try again
Final == {Resolves, "duplicate key value"}

\* the invocation at which the script makes withRetry stop: the first that
\* resolves or rejects with an error that is not transient, or the last one
StopsAt(script) ==
    IF \E k \in 1..maxRetries : script[k] \in Final
    THEN CHOOSE k \in 1..maxRetries :
           script[k] \in Final /\ \A j \in 1..(k - 1) : script[j] \notin Final
    ELSE maxRetries

\* C24: withRetry invokes the operation at most maxRetries times and always
\* comes to an end; it stops at the first invocation that resolves, that
\* rejects with an error which is not transient, or that is the third, and
\* returns that result or throws that error; before the second invocation it
\* has waited 1000 ms and before the third 2000 ms more.
C24_WithRetry ==
    /\ [](inflight[1] # Idle => inflight[1].invocations <= maxRetries)
    /\ [](RetryOver =>
            LET c == inflight[1] IN
            /\ c.invocations = StopsAt(c.script)
            /\ c.result = c.script[c.invocations]
            /\ c.pc = IF c.result = Resolves THEN "returned" ELSE "thrown"
            /\ c.waits = SubSeq(<<1000, 2000>>, 1, c.invocations - 1))
    /\ [][RetryOver => UNCHANGED inflight]_vars
    /\ (inflight[1] # Idle ~> RetryOver)

\* the third invocation has resolved after two transient failures
C24_Witness ==
    /\ inflight[1] # Idle
    /\ inflight[1].pc = "returned"
    /\ inflight[1].invocations = 3
    /\ inflight[1].waits = <<1000, 2000>>

\* the stored subscription and its delivery days are those of the form
StoredAs(id, form) ==
    LET mealTypeNumbers == MealTypeNumbers(sanitizeAll(form.mealTypes)) IN
    /\ deliveryDays[id]
          = [i \in 1..Len(form.days) |-> EditDayNumber(sanitizeInput(form.days[i]))]
    /\ subs[id].meal_plan_id = form.planId
    /\ subs[id].allergies.meal_types = mealTypeNumbers
    /\ subs[id].total_price = FormPrice(form)

\* C25: when two edits of one subscription with different forms that ran at
\* the same time have both answered success, the delivery-day rows, the plan, the meal types and
\* the price stored are those of one of the two requests.
C25_OneEditWins ==
    (/\ inflight[1].pc = "answered"
     /\ inflight[2].pc = "answered"
     /\ inflight[1].id = inflight[2].id
     /\ inflight[1].form # inflight[2].form)
        => \E p \in Procs : StoredAs(inflight[p].id, inflight[p].form)

\* C26: a create that stores a subscription row answers success and has
\* stored a delivery-day row for every day submitted (as many rows as the
\* stored price counts); a create that fails stores no subscription row.
C26_CreateAllOrNothing ==
    [][Len(subs') > Len(subs)
          => /\ resp'.code = 200
             /\ PriceMatches(subs'[Len(subs')], deliveryDays'[Len(subs')])
      ]_vars

\* C27: a create that is rejected because its plan does not exist or because
\* its price does not match changes no stored row, the phone number of the
\* caller included.
C27_RejectedCreateWritesNothing ==
    [][\A u \in UserIds, phone \in PhoneInputs, plan \in PlanInputs :
          \A price \in FormPrices(plan) :
              (/\ Create(TRUE, u, TRUE, "Ann", phone, plan, CreateForm[1],
                         CreateForm[2], "", price)
               /\ \/ plan \notin DOMAIN mealPlans
                  \/ OffPrice(price, plan, CreateForm))
                  => /\ resp'.code # 200
                     /\ UNCHANGED <<subs, deliveryDays, pauses, users>>
      ]_vars

\* no two rows carry the same weekday code, and every code is in 0..6
DaySet(rows) ==
    /\ \A i, j \in 1..Len(rows) : rows[i] = rows[j] => i = j
    /\ \A i \in 1..Len(rows) : rows[i] \in 0..6

\* C28: after a successful create or edit the delivery-day rows of the
\* subscription written form a set of weekday codes in 0..6.
C28_DaysFormSet ==
    [][resp'.code = 200
          => \A id \in 1..Len(subs') :
                (id > Len(subs) \/ deliveryDays'[id] # deliveryDays[id])
                    => DaySet(deliveryDays'[id])
      ]_vars

\* what the subscription row says about the order: plan, meal types, price
Order(sub) ==
    <<sub.user_id, sub.meal_plan_id, sub.meal_type, sub.allergies, sub.total_price>>

\* no subscription row is added or removed, and the subscription row, the
\* delivery-day rows and the pause records of every subscription other than
\* id are as before; a pause record that is new belongs to id
OthersUntouched(id) ==
    /\ Len(subs') = Len(subs)
    /\ Len(pauses') >= Len(pauses)
    /\ \A other \in (1..Len(subs)) \ {id} :
          /\ subs'[other] = subs[other]
          /\ deliveryDays'[other] = deliveryDays[other]
    /\ \A i \in 1..Len(pauses) :
          /\ pauses'[i].subscription_id = pauses[i].subscription_id
          /\ pauses[i].subscription_id # id => pauses'[i] = pauses[i]
    /\ \A i \in (Len(pauses) + 1)..Len(pauses') : pauses'[i].subscription_id = id

\* every subscription keeps its status
StatusKept == \A i \in 1..Len(subs) : subs'[i].status = subs[i].status

\* every subscription keeps its plan, meal types and price
OrderKept == \A i \in 1..Len(subs) : Order(subs'[i]) = Order(subs[i])

\* C29: an edit changes no status and no pause record; a cancel changes
\* nothing but a status and removes no row; a pause or a resume changes no
\* plan, meal types, price or delivery day; and none of them changes a row of
\* a subscription other than the one the request names.
C29_Frame ==
    [][\A g \in GuardInputs, id \in IdInputs :
          /\ (/\ resp'.op = "edit"
              /\ Edit(g[1], g[2], g[3], id, 2, <<"breakfast", "lunch">>,
                      <<"tuesday", "thursday">>, "", ExpectedPrice(mealPlans[2], 2, 2)))
                => OthersUntouched(id) /\ StatusKept /\ pauses' = pauses
          /\ (resp'.op = "cancel" /\ Cancel(g[1], g[2], g[3], id))
                => /\ OthersUntouched(id)
                   /\ OrderKept
                   /\ deliveryDays' = deliveryDays
                   /\ pauses' = pauses
          /\ (resp'.op = "resume" /\ Resume(g[1], g[2], g[3], id))
                => OthersUntouched(id) /\ OrderKept /\ deliveryDays' = deliveryDays
          /\ \A d \in PauseDates :
                (resp'.op = "pause" /\ Pause(g[1], g[2], g[3], id, d[1], d[2]))
                    => /\ OthersUntouched(id)
                       /\ OrderKept
                       /\ deliveryDays' = deliveryDays
      ]_vars

\* the last request was a successful edit, of a subscription that is paused
\* and has a pause record, while the other user has a subscription too
C29_Witness ==
    /\ resp = Response("edit", 200, "")
    /\ Len(subs) = 2
    /\ subs[1].user_id # subs[2].user_id
    /\ \E id \in 1..2 :
          /\ subs[id].status = "paused"
          /\ subs[id].meal_plan_id = 2
          /\ RecordsOf(id) # {}
          /\ subs[3 - id].meal_plan_id = 1

\* the calls of identifier among calls i..j that returned true
Admitted(identifier, i, j) ==
    {k \in i..j : /\ Caller.calls[k].identifier = identifier
                  /\ Caller.calls[k].allowed}

\* C30: for each identifier, among the calls made within an interval
\* shorter than the window at most the ceiling return true; a call returns
\* true exactly when fewer than the ceiling of the earlier calls of its
\* identifier that returned true lie less than a window before it, whatever
\* calls returned false and whatever the other identifier did; and a call
\* that returns false stores nothing.
C30_Limiter ==
    /\ [](\A identifier \in ClientIPs :
            \A i, j \in 1..Len(Caller.calls) :
                (i <= j /\ Caller.calls[j].time - Caller.calls[i].time < authWindowMs)
                    => Cardinality(Admitted(identifier, i, j)) <= authMaxRequests)
    /\ [](\A k \in 1..Len(Caller.calls) :
            LET call == Caller.calls[k] IN
            call.allowed <=>
                Cardinality({i \in Admitted(call.identifier, 1, k - 1) :
                                Caller.calls[i].time > call.time - authWindowMs})
                    < authMaxRequests)
    /\ [][(/\ Len(Caller.calls') > Len(Caller.calls)
           /\ ~Caller.calls'[Len(Caller.calls')].allowed)
              => requests' = requests]_vars

\* a sixth call within the window was turned away, and a call made a window
\* after the first one was let in again
C30_Witness ==
    /\ Len(Caller.calls) = MaxCalls
    /\ \E k \in 1..MaxCalls : ~Caller.calls[k].allowed
    /\ Caller.calls[MaxCalls].allowed
    /\ Caller.calls[MaxCalls].identifier = Caller.calls[1].identifier
    /\ Cardinality(Admitted(Caller.calls[1].identifier, 1, MaxCalls)) = MaxCalls - 1
    /\ ~Caller.calls[MaxCalls - 1].allowed

====
